---- MODULE Spec2Model ----
(***************************************************************************)
(* Model of generate_placeholders.py: a script that draws ten placeholder  *)
(* PNG images (gradient, grid overlay, glow elements, text) and writes     *)
(* them to OUTPUT_DIR.                                                     *)
(*                                                                         *)
(* Two specifications share the variables:                                 *)
(*   Spec          the module run as __main__ (and possibly run again), or *)
(*                 imported by a client that calls create_placeholder once *)
(*                 with arbitrary small arguments,                         *)
(*   SpecGradient  the pixel loop of create_gradient.                      *)
(*                                                                         *)
(* Abstractions of the libraries the script calls:                         *)
(*   - an image is its size, its mode and the list of things drawn on it;  *)
(*   - the module-level generator of `random` is a state rng advanced by   *)
(*     every randint call (a small congruential generator stands for the   *)
(*     Mersenne Twister), seeded nondeterministically at process start;    *)
(*   - math.sqrt and the division of create_gradient are computed in exact *)
(*     arithmetic (int() is the floor of the exact quotient).              *)
(***************************************************************************)
EXTENDS Integers, Sequences, FiniteSets, TLC

VARIABLES
  pc,          \* position of the process in the script
  isMain,      \* __name__ == "__main__"
  run,         \* number of the process run (1, 2, ...)
  idx,         \* create_placeholder calls completed by this process
  call,        \* arguments of the call in progress
  img,         \* the image being built by the call in progress
  overlay,     \* the grid overlay of the call in progress
  k,           \* iterations done of the accent loop (line 85)
  font,        \* font chosen by the call in progress
  rng,         \* state of random's module-level generator
  seed,        \* the state the generator was seeded with in this process
  entryRng,    \* generator state when the call in progress was entered
  fontInstalled, \* environment: arial.ttf can be loaded
  dirExists,   \* file system: OUTPUT_DIR exists
  disk,        \* file system: the files of OUTPUT_DIR
  written,     \* the files saved by this process, in order
  trace,       \* the pipeline stages executed by this process, in order
  stdout,      \* the lines printed by this process
  err,         \* the exception that terminated the process ("none" if none)
  gw, gh, gx, gy, \* create_gradient: width, height, loop variables x, y
  mask_data    \* create_gradient: the list mask_data

vars == <<pc, isMain, run, idx, call, img, overlay, k, font, rng, seed,
          entryRng, fontInstalled, dirExists, disk, written, trace, stdout,
          err, gw, gh, gx, gy, mask_data>>

gradVars == <<gw, gh, gx, gy, mask_data>>

----------------------------------------------------------------------------
(* Bounds of the model *)

\* runs of the script in one behaviour of Spec
MaxRuns == 2
\* largest width and height a client passes
MaxDim == 3
\* largest width and height in SpecGradient
MaxGradDim == 5
\* seeds 0..MaxSeed of the generator
MaxSeed == 3
\* modulus of the generator standing for random's Mersenne Twister
RngMod == 64
\* largest mask value the exact square root is searched up to
MaxMaskSearch == 600

----------------------------------------------------------------------------
(* Configuration, lines 7-12 *)

BRAND_COLOR_RGB == <<59, 130, 246>>
BRAND_COLOR_DARK == <<30, 64, 175>>
BG_COLOR_START == <<15, 23, 42>>
BG_COLOR_END == <<0, 0, 0>>
OUTPUT_DIR == "c:\\Users\\rafis\\Documents\\Antigravity\\Web-automation-business1\\images"

\* line 85: range(3)
AccentCount == 3
\* line 88: random.randint(20, 60)
AccentRadiusMin == 20
AccentRadiusMax == 60
\* line 91
CenterGlowRadius == 100
\* line 98
LogoFontSize == 60
PlainFontSize == 40
\* line 76
GridStepSmall == 40
GridStepLarge == 60
GridStepThreshold == 600
\* line 29
MaskMax == 255

\* os.path.join(OUTPUT_DIR, filename), line 117
PathJoin(dir, filename) == <<dir, filename>>

----------------------------------------------------------------------------
(* The calls of the main block, lines 126-146 *)

Placeholder(filename, width, height, text, is_logo) ==
  [filename |-> filename, width |-> width, height |-> height,
   text |-> text, is_logo |-> is_logo]

\* lines 132-139
services ==
  << <<"service_1.png", "RCM Optimization">>,
     <<"service_2.png", "API Integration">>,
     <<"service_3.png", "Smart Claims AI">>,
     <<"service_4.png", "Eligibility Bots">>,
     <<"service_5.png", "Medical OCR">>,
     <<"service_6.png", "Cashflow Analytics">> >>

\* a plausible slip: the hero image generated at the service size and the
\* two showcase images in the other order
MainCallsSlip ==
  << Placeholder("logo.png", 512, 512, "Care Tech", TRUE),
     Placeholder("hero_visual.png", 800, 600, "Future of Health\nAutomation", FALSE) >>
  \o [i \in 1..Len(services) |->
        Placeholder(services[i][1], 800, 600, services[i][2], FALSE)]
  \o << Placeholder("showcase_2.png", 800, 600, "Mobile App", FALSE),
        Placeholder("showcase_1.png", 800, 600, "Dashboard View", FALSE) >>

\* the sequence of create_placeholder calls of the main block
MainCalls ==
  << Placeholder("logo.png", 512, 512, "Care Tech", TRUE),
     Placeholder("hero_visual.png", 1200, 1200, "Future of Health\nAutomation", FALSE) >>
  \o [i \in 1..Len(services) |->
        Placeholder(services[i][1], 800, 600, services[i][2], FALSE)]
  \o << Placeholder("showcase_1.png", 800, 600, "Dashboard View", FALSE),
        Placeholder("showcase_2.png", 800, 600, "Mobile App", FALSE) >>

MainNames == {MainCalls[i].filename : i \in 1..Len(MainCalls)}

\* arguments a client of the imported module passes
ClientNames == {"client.png"}
ClientTexts == {"", "Hi"}
ClientCalls ==
  {Placeholder(f, w, h, t, l) :
     f \in ClientNames, w \in 1..MaxDim, h \in 1..MaxDim,
     t \in ClientTexts, l \in BOOLEAN}

AllNames == MainNames \cup ClientNames

NoCall == Placeholder("", 0, 0, "", FALSE)
NoGrid == [step |-> 0, v |-> {}, h |-> {}]
NoImage == [size |-> <<0, 0>>, mode |-> "none", grid |-> NoGrid,
            glows |-> <<>>, text |-> <<>>]
NoFont == [name |-> "none", size |-> 0]
NoFile == [state |-> "absent", size |-> <<0, 0>>, by |-> 0]

----------------------------------------------------------------------------
(* random: the module-level generator *)

\* one step of the generator
NextRng(s) == (5 * s + 3) % RngMod

\* random.randint(a, b) drawn in generator state s: a value of a..b; the
\* generator is left in state NextRng(s)
Randint(s, a, b) == a + (NextRng(s) % (b - a + 1))

----------------------------------------------------------------------------
(* PIL *)

\* Image.new(mode, size)
ImageNew(mode, size) == [NoImage EXCEPT !.size = size, !.mode = mode]

\* Image.composite(top, base, mask): the three images must have one size
ImageComposite(top, base, masksize) ==
  IF top.size = base.size /\ base.size = masksize THEN base ELSE NoImage

\* Image.alpha_composite(im1, im2): two RGBA images of one size, else ValueError
AlphaCompositeOk(im1, im2) ==
  im1.mode = "RGBA" /\ im2.mode = "RGBA" /\ im1.size = im2.size

\* Image.convert(mode)
Convert(im, mode) == [im EXCEPT !.mode = mode]

----------------------------------------------------------------------------
(* create_gradient, lines 17-32 *)

\* a plausible slip: the canvas created with (height, width)
CreateGradientSwapped(width, height) ==
  ImageComposite(ImageNew("RGB", <<height, width>>),
                 ImageNew("RGB", <<height, width>>), <<height, width>>)

\* the image create_gradient returns: base, top and mask are created with
\* (width, height) and composited
CreateGradient(width, height) ==
  ImageComposite(ImageNew("RGB", <<width, height>>),
                 ImageNew("RGB", <<width, height>>), <<width, height>>)

\* 4 * dist^2 of line 27, with center_x = width / 2 and center_y = height / 2
Dist2x4(x, y, width, height) ==
  (2 * x - width) * (2 * x - width) + (2 * y - height) * (2 * y - height)

\* a plausible slip: max_dist taken as the larger half-side
MaxDist2x4Side(width, height) ==
  IF width > height THEN width * width ELSE height * height

\* 4 * max_dist^2 of line 23
MaxDist2x4(width, height) == width * width + height * height

\* int(255 * sqrt(d2 / m2)) in exact arithmetic, for m2 > 0
FloorScaledRoot(d2, m2) ==
  CHOOSE v \in 0..MaxMaskSearch :
    /\ v * v * m2 <= MaskMax * MaskMax * d2
    /\ (v + 1) * (v + 1) * m2 > MaskMax * MaskMax * d2

\* the value appended to mask_data for pixel (x, y), lines 27-29
MaskValue(x, y, width, height) ==
  FloorScaledRoot(Dist2x4(x, y, width, height), MaxDist2x4(width, height))

----------------------------------------------------------------------------
(* draw_tech_grid, lines 34-41 *)

GridOpacity(c, step) == IF c % (step * 4) = 0 THEN 30 ELSE 10

\* range(0, n, step)
RangeStep(n, step) == {c \in 0..(n - 1) : c % step = 0}

DrawTechGrid(im, width, height, step) ==
  [im EXCEPT !.grid =
     [step |-> step,
      v |-> {<<x, GridOpacity(x, step)>> : x \in RangeStep(width, step)},
      h |-> {<<y, GridOpacity(y, step)>> : y \in RangeStep(height, step)}]]

\* line 76: step=40 if width < 600 else 60
GridStep(width) ==
  IF width < GridStepThreshold THEN GridStepSmall ELSE GridStepLarge

----------------------------------------------------------------------------
(* add_glowing_element, lines 43-66 *)

\* the three layers (outer glow, inner glow, core) are created with img.size
\* and pasted at (0, 0): the image keeps its size
AddGlowingElement(im, x, y, radius, color) ==
  [im EXCEPT !.glows =
     Append(@, [x |-> x, y |-> y, radius |-> radius, color |-> color,
                layers |-> <<im.size, im.size, im.size>>])]

----------------------------------------------------------------------------
(* create_placeholder, lines 68-119: helpers *)

Min(a, b) == IF a < b THEN a ELSE b

\* a plausible slip: the center rounded up
CenterOfCeil(n) == (n + 1) \div 2

\* line 80: cx, cy = width // 2, height // 2
CenterOf(n) == n \div 2

\* line 82: min(width, height) // 3
LogoRadius(width, height) == Min(width, height) \div 3

\* a plausible slip: the upper end of the range without the // 4
AccentHiSlip(n) == n * 3

\* lines 86-87: random.randint(n//4, n*3//4)
AccentLo(n) == n \div 4
AccentHi(n) == (n * 3) \div 4

\* a plausible slip: the accents drawn from a generator reset for each file
AccentAtFixed(s, width, height) ==
  [x |-> Randint(0, AccentLo(width), AccentHi(width)),
   y |-> Randint(NextRng(0), AccentLo(height), AccentHi(height)),
   radius |-> Randint(NextRng(NextRng(0)), AccentRadiusMin, AccentRadiusMax)]

\* one iteration of the loop of lines 85-88 in generator state s: three
\* draws, in the order rx, ry, radius
AccentAt(s, width, height) ==
  LET s1 == NextRng(s)
      s2 == NextRng(s1)
  IN [x |-> Randint(s, AccentLo(width), AccentHi(width)),
      y |-> Randint(s1, AccentLo(height), AccentHi(height)),
      radius |-> Randint(s2, AccentRadiusMin, AccentRadiusMax)]

\* a plausible slip: no except clause around the font loading
TryLoadFontNoExcept(installed, is_logo) ==
  IF installed
  THEN [name |-> "arial.ttf",
        size |-> IF is_logo THEN LogoFontSize ELSE PlainFontSize]
  ELSE [name |-> "IOError", size |-> 0]

\* lines 96-101: try truetype("arial.ttf"), except IOError load_default()
TryLoadFont(installed, is_logo) ==
  IF installed
  THEN [name |-> "arial.ttf",
        size |-> IF is_logo THEN LogoFontSize ELSE PlainFontSize]
  ELSE [name |-> "default", size |-> 0]

\* a plausible slip: the directory created without the existence test
NeedsMakedirsAlways(exists) == TRUE

\* line 14: if not os.path.exists(OUTPUT_DIR)
NeedsMakedirs(exists) == ~exists

\* a line printed: its text and the path formatted into it
Line(text, path) == [text |-> text, path |-> path]

\* the call of os.makedirs, as an entry of the trace
MakedirsEvent == [call |-> 0, file |-> "", stage |-> "makedirs"]

Stage(name) == [call |-> idx + 1, file |-> call.filename, stage |-> name]

\* where a finished call returns to
AfterCall == IF isMain THEN "main" ELSE "idle"

\* a plausible slip: the exception caught around the call and the script
\* going on
AbortSwallowed(e) == pc' = AfterCall /\ err' = e

\* an unhandled exception terminates the process
Abort(e) == pc' = "aborted" /\ err' = e

----------------------------------------------------------------------------
(* Module level, lines 14-15, and the main block, lines 122-148 *)

\* lines 14-15: the directory is created when it does not exist; makedirs
\* may be refused by the file system, and raises on an existing directory
ImportModule ==
  /\ pc = "import"
  /\ IF NeedsMakedirs(dirExists)
     THEN IF dirExists
          THEN Abort("FileExistsError") /\ UNCHANGED <<dirExists, trace>>
          ELSE \E ok \in BOOLEAN :
                 IF ok
                 THEN /\ dirExists' = TRUE
                      /\ trace' = Append(trace, MakedirsEvent)
                      /\ pc' = IF isMain THEN "main_start" ELSE "idle"
                      /\ UNCHANGED err
                 ELSE Abort("PermissionError")
                      /\ UNCHANGED <<dirExists, trace>>
     ELSE /\ pc' = IF isMain THEN "main_start" ELSE "idle"
          /\ UNCHANGED <<dirExists, err, trace>>
  /\ UNCHANGED <<isMain, run, idx, call, img, overlay, k, font, rng, seed,
                 entryRng, fontInstalled, disk, written, stdout, gradVars>>

\* line 123
MainStart ==
  /\ pc = "main_start"
  /\ stdout' = Append(stdout, Line("Generating enhanced placeholders...", <<>>))
  /\ pc' = "main"
  /\ UNCHANGED <<isMain, run, idx, call, img, overlay, k, font, rng, seed,
                 entryRng, fontInstalled, dirExists, disk, written, trace,
                 err, gradVars>>

\* entry of create_placeholder with arguments c
Enter(c) ==
  /\ call' = c
  /\ entryRng' = rng
  /\ img' = NoImage
  /\ overlay' = NoImage
  /\ font' = NoFont
  /\ k' = 0
  /\ pc' = "gradient"
  /\ UNCHANGED <<isMain, run, idx, rng, seed, fontInstalled, dirExists, disk,
                 written, trace, stdout, err, gradVars>>

\* lines 126-146: the next create_placeholder call of the main block
MainCall ==
  /\ pc = "main"
  /\ idx < Len(MainCalls)
  /\ Enter(MainCalls[idx + 1])

\* line 148
MainDone ==
  /\ pc = "main"
  /\ idx = Len(MainCalls)
  /\ stdout' = Append(stdout, Line("Done!", <<>>))
  /\ pc' = "done"
  /\ UNCHANGED <<isMain, run, idx, call, img, overlay, k, font, rng, seed,
                 entryRng, fontInstalled, dirExists, disk, written, trace,
                 err, gradVars>>

\* a client that imported the module calls create_placeholder, once
ClientCall ==
  /\ pc = "idle"
  /\ idx = 0
  /\ \E c \in ClientCalls : Enter(c)

\* the script is run again: a new process on the same file system
Rerun ==
  /\ pc \in {"done", "aborted"}
  /\ isMain
  /\ run < MaxRuns
  /\ run' = run + 1
  /\ pc' = "import"
  /\ idx' = 0
  /\ call' = NoCall
  /\ img' = NoImage
  /\ overlay' = NoImage
  /\ font' = NoFont
  /\ k' = 0
  /\ \E s \in 0..MaxSeed : rng' = s /\ seed' = s /\ entryRng' = s
  /\ written' = <<>>
  /\ trace' = <<>>
  /\ stdout' = <<>>
  /\ err' = "none"
  /\ UNCHANGED <<isMain, fontInstalled, dirExists, disk, gradVars>>

----------------------------------------------------------------------------
(* create_placeholder, lines 68-119 *)

\* lines 70-71: img = create_gradient(...); img = img.convert("RGBA")
Gradient ==
  /\ pc = "gradient"
  /\ img' = Convert(CreateGradient(call.width, call.height), "RGBA")
  /\ trace' = Append(trace, Stage("gradient"))
  /\ pc' = "grid"
  /\ UNCHANGED <<isMain, run, idx, call, overlay, k, font, rng, seed,
                 entryRng, fontInstalled, dirExists, disk, written, stdout,
                 err, gradVars>>

\* lines 74-77: the overlay has img.size; alpha_composite raises ValueError
\* on images of different sizes
Grid ==
  /\ pc = "grid"
  /\ LET ov == DrawTechGrid(ImageNew("RGBA", img.size), call.width,
                            call.height, GridStep(call.width))
     IN /\ overlay' = ov
        /\ IF AlphaCompositeOk(img, ov)
           THEN /\ img' = [img EXCEPT !.grid = ov.grid]
                /\ trace' = Append(trace, Stage("grid"))
                /\ pc' = "glow"
                /\ UNCHANGED err
           ELSE Abort("ValueError") /\ UNCHANGED <<img, trace>>
  /\ k' = 0
  /\ UNCHANGED <<isMain, run, idx, call, font, rng, seed, entryRng,
                 fontInstalled, dirExists, disk, written, stdout, gradVars>>

\* lines 81-82: the logo's one glow
LogoGlow ==
  /\ pc = "glow"
  /\ call.is_logo
  /\ img' = AddGlowingElement(img, CenterOf(call.width), CenterOf(call.height),
                              LogoRadius(call.width, call.height),
                              BRAND_COLOR_RGB)
  /\ trace' = Append(trace, Stage("logo_glow"))
  /\ pc' = "text"
  /\ UNCHANGED <<isMain, run, idx, call, overlay, k, font, rng, seed,
                 entryRng, fontInstalled, dirExists, disk, written, stdout,
                 err, gradVars>>

\* lines 85-88: one iteration of the accent loop, three draws from random
Accent ==
  /\ pc = "glow"
  /\ ~call.is_logo
  /\ k < AccentCount
  /\ LET a == AccentAt(rng, call.width, call.height)
     IN img' = AddGlowingElement(img, a.x, a.y, a.radius, BRAND_COLOR_DARK)
  /\ rng' = NextRng(NextRng(NextRng(rng)))
  /\ k' = k + 1
  /\ trace' = Append(trace, Stage("accent"))
  /\ UNCHANGED <<pc, isMain, run, idx, call, overlay, font, seed, entryRng,
                 fontInstalled, dirExists, disk, written, stdout, err,
                 gradVars>>

\* line 91: the main center glow, after the loop
CenterGlow ==
  /\ pc = "glow"
  /\ ~call.is_logo
  /\ k = AccentCount
  /\ img' = AddGlowingElement(img, CenterOf(call.width), CenterOf(call.height),
                              CenterGlowRadius, BRAND_COLOR_RGB)
  /\ trace' = Append(trace, Stage("center_glow"))
  /\ pc' = "text"
  /\ UNCHANGED <<isMain, run, idx, call, overlay, k, font, rng, seed,
                 entryRng, fontInstalled, dirExists, disk, written, stdout,
                 err, gradVars>>

\* a plausible slip: the main text drawn without its shadow
TextSkipShadow ==
  /\ pc = "text"
  /\ IF call.text # ""
     THEN /\ font' = TryLoadFont(fontInstalled, call.is_logo)
          /\ pc' = "main_text"
     ELSE pc' = "save" /\ UNCHANGED font
  /\ UNCHANGED <<isMain, run, idx, call, img, overlay, k, rng, seed, entryRng,
                 fontInstalled, dirExists, disk, written, trace, stdout,
                 err, gradVars>>

\* lines 94-109: with a non-empty text the font is loaded (the default font
\* when arial.ttf cannot be) and the text measured; an empty text skips to
\* the save
Text ==
  /\ pc = "text"
  /\ IF call.text # ""
     THEN LET f == TryLoadFont(fontInstalled, call.is_logo)
          IN IF f.name = "IOError"
             THEN Abort("IOError") /\ UNCHANGED font
             ELSE font' = f /\ pc' = "shadow" /\ UNCHANGED err
     ELSE pc' = "save" /\ UNCHANGED <<font, err>>
  /\ UNCHANGED <<isMain, run, idx, call, img, overlay, k, rng, seed, entryRng,
                 fontInstalled, dirExists, disk, written, trace, stdout,
                 gradVars>>

\* line 112: the shadow, at (tx+2, ty+2)
Shadow ==
  /\ pc = "shadow"
  /\ img' = [img EXCEPT !.text =
               Append(@, [kind |-> "shadow", offset |-> <<2, 2>>,
                          fill |-> <<0, 0, 0, 180>>, font |-> font,
                          text |-> call.text])]
  /\ trace' = Append(trace, Stage("shadow"))
  /\ pc' = "main_text"
  /\ UNCHANGED <<isMain, run, idx, call, overlay, k, font, rng, seed,
                 entryRng, fontInstalled, dirExists, disk, written, stdout,
                 err, gradVars>>

\* line 114: the main text, at (tx, ty)
MainText ==
  /\ pc = "main_text"
  /\ img' = [img EXCEPT !.text =
               Append(@, [kind |-> "text", offset |-> <<0, 0>>,
                          fill |-> <<255, 255, 255>>, font |-> font,
                          text |-> call.text])]
  /\ trace' = Append(trace, Stage("text"))
  /\ pc' = "save"
  /\ UNCHANGED <<isMain, run, idx, call, overlay, k, font, rng, seed,
                 entryRng, fontInstalled, dirExists, disk, written, stdout,
                 err, gradVars>>

\* lines 117-119: img.save(filepath) and the print. The save may fail: the
\* file cannot be opened (the disk is left as it was) or the write breaks
\* off (a partial file is left); either way OSError terminates the process.
Save ==
  /\ pc = "save"
  /\ LET filepath == PathJoin(OUTPUT_DIR, call.filename)
     IN IF ~dirExists
        THEN Abort("FileNotFoundError")
             /\ UNCHANGED <<disk, written, trace, stdout, idx>>
        ELSE \E outcome \in {"ok", "refused", "partial"} :
               IF outcome = "ok"
               THEN /\ disk' = [disk EXCEPT ![call.filename] =
                                  [state |-> "complete", size |-> img.size,
                                   by |-> run]]
                    /\ written' = Append(written,
                                    [path |-> filepath, size |-> img.size,
                                     args |-> call, glows |-> img.glows,
                                     overlay |-> overlay.size,
                                     text |-> img.text,
                                     entryRng |-> entryRng])
                    /\ trace' = Append(trace, Stage("save"))
                    /\ stdout' = Append(stdout,
                                   Line("Generated enhanced placeholder:",
                                        filepath))
                    /\ idx' = idx + 1
                    /\ pc' = AfterCall
                    /\ UNCHANGED err
               ELSE /\ Abort("OSError")
                    /\ disk' = IF outcome = "partial"
                               THEN [disk EXCEPT ![call.filename] =
                                       [state |-> "partial",
                                        size |-> <<0, 0>>, by |-> run]]
                               ELSE disk
                    /\ UNCHANGED <<written, trace, stdout, idx>>
  /\ UNCHANGED <<isMain, run, call, img, overlay, k, font, rng, seed,
                 entryRng, fontInstalled, dirExists, gradVars>>

----------------------------------------------------------------------------
(* Specifications *)

\* the state of a process at its start, before line 14
ProcessStart(main) ==
  /\ pc = "import"
  /\ isMain = main
  /\ run = 1
  /\ idx = 0
  /\ call = NoCall
  /\ img = NoImage
  /\ overlay = NoImage
  /\ k = 0
  /\ font = NoFont
  /\ rng \in 0..MaxSeed
  /\ seed = rng
  /\ entryRng = rng
  /\ fontInstalled \in BOOLEAN
  /\ dirExists \in BOOLEAN
  /\ disk = [n \in AllNames |-> NoFile]
  /\ written = <<>>
  /\ trace = <<>>
  /\ stdout = <<>>
  /\ err = "none"
  /\ gw = 0 /\ gh = 0 /\ gx = 0 /\ gy = 0
  /\ mask_data = <<>>

\* the module is run as a script or imported by a client
Init == \E main \in BOOLEAN : ProcessStart(main)

Next ==
  \/ ImportModule \/ MainStart \/ MainCall \/ MainDone \/ Rerun
  \/ ClientCall
  \/ Gradient \/ Grid \/ LogoGlow \/ Accent \/ CenterGlow
  \/ Text \/ Shadow \/ MainText \/ Save

Spec == Init /\ [][Next]_vars

----------------------------------------------------------------------------
(* create_gradient run pixel by pixel, lines 21-32 *)

\* create_gradient(width, height, ...) entered with positive arguments:
\* lines 18-24, mask_data = [] and the loops about to start
InitGradient ==
  /\ pc = "mask_loop"
  /\ gw \in 1..MaxGradDim
  /\ gh \in 1..MaxGradDim
  /\ gx = 0 /\ gy = 0
  /\ mask_data = <<>>
  /\ isMain = FALSE
  /\ run = 1
  /\ idx = 0
  /\ call = NoCall
  /\ img = NoImage
  /\ overlay = NoImage
  /\ k = 0
  /\ font = NoFont
  /\ rng = 0 /\ seed = 0 /\ entryRng = 0
  /\ fontInstalled = FALSE
  /\ dirExists = FALSE
  /\ disk = [n \in AllNames |-> NoFile]
  /\ written = <<>>
  /\ trace = <<>>
  /\ stdout = <<>>
  /\ err = "none"

\* lines 25-29: one iteration of the inner loop, y outer and x inner
MaskPixel ==
  /\ pc = "mask_loop"
  /\ gy < gh
  /\ mask_data' = Append(mask_data, MaskValue(gx, gy, gw, gh))
  /\ IF gx + 1 < gw
     THEN gx' = gx + 1 /\ gy' = gy
     ELSE gx' = 0 /\ gy' = gy + 1
  /\ UNCHANGED <<pc, isMain, run, idx, call, img, overlay, k, font, rng, seed,
                 entryRng, fontInstalled, dirExists, disk, written, trace,
                 stdout, err, gw, gh>>

\* lines 31-32: mask.putdata(mask_data) and the composite that is returned
MaskReturn ==
  /\ pc = "mask_loop"
  /\ gy = gh
  /\ img' = CreateGradient(gw, gh)
  /\ pc' = "mask_done"
  /\ UNCHANGED <<isMain, run, idx, call, overlay, k, font, rng, seed,
                 entryRng, fontInstalled, dirExists, disk, written, trace,
                 stdout, err, gradVars>>

NextGradient == MaskPixel \/ MaskReturn

SpecGradient == InitGradient /\ [][NextGradient]_vars

----------------------------------------------------------------------------
(* Properties *)

InCall == pc \in {"gradient", "grid", "glow", "text", "shadow", "main_text", "save"}
HasImage == pc \in {"grid", "glow", "text", "shadow", "main_text", "save"}
GlowsDone == pc \in {"text", "shadow", "main_text", "save"}
Written == 1..Len(written)
Printed(text) == \E i \in 1..Len(stdout) : stdout[i].text = text
Present == {n \in AllNames : disk[n].state # "absent"}
WrittenName(i) == written[i].args.filename

\* C1: for every call with positive width and height the image saved has
\* size exactly (width, height); the gradient canvas, the grid overlay and
\* every glow layer have that size and no step of the pipeline changes it.
C1_SavedSizeIsRequested ==
  /\ HasImage =>
       /\ img.size = <<call.width, call.height>>
       /\ \A j \in 1..Len(img.glows) :
            \A l \in 1..3 : img.glows[j].layers[l] = <<call.width, call.height>>
  /\ pc \in {"glow", "text", "shadow", "main_text", "save"} =>
       overlay.size = <<call.width, call.height>>
  /\ \A i \in Written :
       LET w == written[i]
       IN /\ w.size = <<w.args.width, w.args.height>>
          /\ w.overlay = w.size
          /\ \A j \in 1..Len(w.glows) :
               \A l \in 1..3 : w.glows[j].layers[l] = w.size
  /\ \A n \in AllNames :
       disk[n].state = "complete" /\ disk[n].by = run =>
         \E i \in Written :
           WrittenName(i) = n /\ disk[n].size = written[i].size

\* C1 witness: a non-square image with its four glows has been saved
C1_Witness ==
  \E i \in Written :
    /\ written[i].args.width # written[i].args.height
    /\ Len(written[i].glows) = 4
    /\ disk[written[i].args.filename].size =
         <<written[i].args.width, written[i].args.height>>

\* the ten file names, in the order the claims give them
TenNames ==
  <<"logo.png", "hero_visual.png", "service_1.png", "service_2.png",
    "service_3.png", "service_4.png", "service_5.png", "service_6.png",
    "showcase_1.png", "showcase_2.png">>
TenSet == {TenNames[i] : i \in 1..10}
TenSize(i) ==
  IF i = 1 THEN <<512, 512>> ELSE IF i = 2 THEN <<1200, 1200>> ELSE <<800, 600>>

\* C2: a run of the script generates the ten files logo.png, hero_visual.png,
\* service_1.png .. service_6.png, showcase_1.png, showcase_2.png, each once
\* and in that order, each at OUTPUT_DIR joined with its name, logo.png at
\* 512x512 as a logo, hero_visual.png at 1200x1200 and the others at 800x600
\* as non-logos; it writes no other file, and prints "Done!" only after the
\* tenth file is written.
C2_TenFilesInOrder ==
  isMain =>
    /\ Len(written) <= 10
    /\ \A i \in Written :
         /\ written[i].path = PathJoin(OUTPUT_DIR, TenNames[i])
         /\ written[i].args.filename = TenNames[i]
         /\ written[i].size = TenSize(i)
         /\ written[i].args.is_logo = (i = 1)
    /\ Present \subseteq TenSet
    /\ \A n \in AllNames : disk[n].state = "complete" => disk[n].by \in 1..run
    /\ {n \in AllNames : disk[n].state = "complete" /\ disk[n].by = run}
         \subseteq {TenNames[i] : i \in 1..Min(10, Len(written))}
    /\ Printed("Done!") => Len(written) = 10
    /\ pc = "done" => Printed("Done!") /\ Len(written) = 10

\* C2 witness: the script has run to its end
C2_Witness ==
  /\ isMain
  /\ pc = "done"
  /\ Len(written) = 10
  /\ stdout[Len(stdout)].text = "Done!"
  /\ \A i \in 1..10 : disk[TenNames[i]].state = "complete"

\* C3: the output directory is created if missing, before any file is
\* written; a run that finds the directory does not create it and meets no
\* error from it; a run that ends leaves each of the ten files written by
\* itself and the directory holding the ten names, as after the first run.
C3_DirectoryIdempotent ==
  /\ err # "FileExistsError"
  /\ pc \notin {"import", "aborted"} => dirExists
  /\ Present # {} => dirExists
  /\ (\E n \in AllNames : disk[n].state # "absent" /\ disk[n].by < run) =>
       \A j \in 1..Len(trace) : trace[j] # MakedirsEvent
  /\ isMain /\ pc = "done" =>
       /\ Present = TenSet
       /\ \A n \in TenSet : disk[n].state = "complete" /\ disk[n].by = run

\* C3 witness: the second run, begun on the ten files of the first, has
\* overwritten nine of them without creating the directory
C3_Witness ==
  /\ isMain
  /\ run = 2
  /\ Len(written) = 9
  /\ \A j \in 1..Len(trace) : trace[j] # MakedirsEvent
  /\ \A i \in 1..9 : disk[TenNames[i]].state = "complete" /\ disk[TenNames[i]].by = 2
  /\ disk[TenNames[10]].state = "complete" /\ disk[TenNames[10]].by = 1

\* the arguments and glow elements of the calls whose glow stage is over:
\* the finished calls and the call in progress
Composited ==
  {<<written[i].args, written[i].glows>> : i \in Written}
    \cup (IF GlowsDone THEN {<<call, img.glows>>} ELSE {})

C4_Count(args, glows) ==
  IF args.is_logo
  THEN Len(glows) = 1
  ELSE /\ Len(glows) = 4
       /\ \A j \in 1..3 : glows[j].color = BRAND_COLOR_DARK
       /\ glows[4].color = BRAND_COLOR_RGB

C4_Half(args, glows) ==
  /\ C4_Count(args, glows)
  /\ 2 * glows[Len(glows)].x = args.width
  /\ 2 * glows[Len(glows)].y = args.height

C4_Floor(args, glows) ==
  /\ C4_Count(args, glows)
  /\ glows[Len(glows)].x = args.width \div 2
  /\ glows[Len(glows)].y = args.height \div 2
  /\ args.width % 2 = 0 => 2 * glows[Len(glows)].x = args.width
  /\ args.height % 2 = 0 => 2 * glows[Len(glows)].y = args.height

\* C4 as stated: a logo composites exactly one glow element, centered at
\* (width/2, height/2); a non-logo exactly four, the center glow at
\* (width/2, height/2) and 3 accents.
C4_CenterAtHalf == \A c \in Composited : C4_Half(c[1], c[2])

\* C4 amended: a logo composites exactly one glow element and a non-logo
\* exactly four (3 accents, then the center glow); the logo glow and the
\* center glow are at (width // 2, height // 2), which is (width/2, height/2)
\* when width and height are even.
C4_CenterAtFloorHalf == \A c \in Composited : C4_Floor(c[1], c[2])

\* C4 witness: a non-logo of odd width and height has its four glows, the
\* center glow at (1, 1) on a 3x3 canvas
C4_Witness ==
  /\ GlowsDone
  /\ call.width = 3
  /\ call.height = 3
  /\ ~call.is_logo
  /\ Len(img.glows) = 4
  /\ img.glows[4].x = 1
  /\ img.glows[4].y = 1

\* C5: when arial.ttf cannot be loaded the default font is substituted and
\* the call goes on: the text is drawn with it and the file is written; a
\* font-loading failure never terminates the run or skips a file.
C5_FontFallback ==
  /\ err # "IOError"
  /\ pc \in {"shadow", "main_text"} =>
       font.name = (IF fontInstalled THEN "arial.ttf" ELSE "default")
  /\ pc = "save" /\ call.text # "" => Len(img.text) = 2
  /\ \A i \in Written :
       written[i].args.text # "" =>
         /\ Len(written[i].text) = 2
         /\ \A j \in 1..2 :
              /\ written[i].text[j].text = written[i].args.text
              /\ written[i].text[j].font.name =
                   (IF fontInstalled THEN "arial.ttf" ELSE "default")
  /\ isMain /\ pc = "done" =>
       \A i \in 1..10 : Len(written[i].text) = 2

\* C5 witness: without arial.ttf the script has run to its end, every text
\* drawn with the default font
C5_Witness ==
  /\ ~fontInstalled
  /\ isMain
  /\ pc = "done"
  /\ Len(written) = 10
  /\ \A i \in 1..10 : written[i].text[2].font.name = "default"

\* the positions of the trace that are pipeline stages
StagePositions == {j \in 1..Len(trace) : trace[j].call > 0}

\* C6: every failure other than the missing font terminates the process:
\* nothing is retried; when a run has ended either all ten files were
\* written by it or it was aborted; after a failure no later file of the
\* sequence is generated and "Done!" is not printed.
C6_FailureAborts ==
  /\ (err # "none") <=> (pc = "aborted")
  /\ err \in {"none", "PermissionError", "OSError"}
  /\ Cardinality({j \in StagePositions : trace[j].stage = "gradient"})
       <= idx + 1
  /\ Cardinality({j \in StagePositions : trace[j].stage = "save"}) = idx
  /\ Len(written) = idx
  /\ isMain /\ pc \in {"done", "aborted"} =>
       \/ \A n \in TenSet : disk[n].state = "complete" /\ disk[n].by = run
       \/ pc = "aborted"
  /\ isMain /\ pc = "aborted" =>
       /\ ~Printed("Done!")
       /\ idx < 10
       /\ \A j \in StagePositions : trace[j].call <= idx + 1
       /\ \A i \in (idx + 1)..10 :
            ~(disk[TenNames[i]].state = "complete" /\ disk[TenNames[i]].by = run)
       /\ \A i \in (idx + 2)..10 : disk[TenNames[i]].by # run

\* C6 witness: the save of the fifth file failed, leaving a partial file;
\* four files are written and the process is aborted
C6_Witness ==
  /\ isMain
  /\ pc = "aborted"
  /\ err = "OSError"
  /\ Len(written) = 4
  /\ disk[TenNames[5]].state = "partial"
  /\ disk[TenNames[5]].by = run

RECURSIVE RngAfter(_, _)
\* the generator state n steps after s
RngAfter(s, n) == IF n = 0 THEN s ELSE RngAfter(NextRng(s), n - 1)

\* the draw of randint(a, b) that is the n-th draw (n = 1, 2, ...) after
\* generator state s
Draw(s, n, a, b) == a + (RngAfter(s, n) % (b - a + 1))

\* position and radius of the j-th accent (j = 1, 2, 3) of a width x height
\* non-logo whose call was entered in generator state s
AccentFrom(s, j, width, height) ==
  [x |-> Draw(s, 3 * j - 2, width \div 4, (width * 3) \div 4),
   y |-> Draw(s, 3 * j - 1, height \div 4, (height * 3) \div 4),
   radius |-> Draw(s, 3 * j, 20, 60)]

AccentOf(g) == [x |-> g.x, y |-> g.y, radius |-> g.radius]

\* the non-logo files written before the i-th
NonLogosBefore(i) == Cardinality({j \in 1..(i - 1) : ~written[j].args.is_logo})

\* C7 as stated: what is generated for a file, the positions and radii of
\* its accents included, is the same whichever files were generated before
\* it: it is what the process would generate for it as its first file.
C7_OrderIndependent ==
  \A i \in Written :
    ~written[i].args.is_logo =>
      \A j \in 1..3 :
        AccentOf(written[i].glows[j]) =
          AccentFrom(seed, j, written[i].args.width, written[i].args.height)

\* C7 amended: size, path, text and center glow of a file depend on its own
\* arguments alone; its accents are the nine draws of random's shared
\* generator that follow the draws of the non-logo files generated before
\* it in the process, nine for each.
C7_AccentsFollowGenerator ==
  \A i \in Written :
    LET w == written[i]
        a == w.args
    IN /\ w.size = <<a.width, a.height>>
       /\ w.path = PathJoin(OUTPUT_DIR, a.filename)
       /\ Len(w.text) = (IF a.text = "" THEN 0 ELSE 2)
       /\ w.glows[Len(w.glows)].x = a.width \div 2
       /\ w.glows[Len(w.glows)].y = a.height \div 2
       /\ w.glows[Len(w.glows)].radius =
            (IF a.is_logo THEN Min(a.width, a.height) \div 3 ELSE 100)
       /\ w.entryRng = RngAfter(seed, 9 * NonLogosBefore(i))
       /\ ~a.is_logo =>
            \A j \in 1..3 :
              AccentOf(w.glows[j]) = AccentFrom(w.entryRng, j, a.width, a.height)

\* C7 witness: service_1.png and service_2.png, generated with the same
\* arguments but for name and title, have different accents
C7_Witness ==
  /\ isMain
  /\ Len(written) >= 4
  /\ written[3].args.width = written[4].args.width
  /\ written[3].args.height = written[4].args.height
  /\ \E j \in 1..3 : AccentOf(written[3].glows[j]) # AccentOf(written[4].glows[j])

\* the stages of one file, in the claimed order
StagesOf(args) ==
  <<"gradient", "grid">>
    \o (IF args.is_logo THEN <<"logo_glow">>
        ELSE <<"accent", "accent", "accent", "center_glow">>)
    \o (IF args.text # "" THEN <<"shadow", "text">> ELSE <<>>)
    \o <<"save">>

\* the stages of the n-th call, as entries of the trace
TraceOf(n, args) ==
  [j \in 1..Len(StagesOf(args)) |->
     [call |-> n, file |-> args.filename, stage |-> StagesOf(args)[j]]]

RECURSIVE TraceOfWritten(_)
\* the stages of the first n written files, one file after the other
TraceOfWritten(n) ==
  IF n = 0 THEN <<>>
  ELSE TraceOfWritten(n - 1) \o TraceOf(n, written[n].args)

IsStage(e) == e.call > 0
StageTrace == SelectSeq(trace, IsStage)

IsProperPrefix(p, q) ==
  Len(p) < Len(q) /\ \A j \in 1..Len(p) : p[j] = q[j]

\* C8: for every file the stages run once each in the order gradient, grid
\* overlay, glow elements (the 3 accents before the center glow), text
\* (shadow before main text, only for a non-empty text), write; the write
\* is the last stage and the stages of two files are never interleaved.
C8_StageOrder ==
  LET done == TraceOfWritten(Len(written))
      rest == SubSeq(StageTrace, Len(done) + 1, Len(StageTrace))
  IN /\ Len(done) <= Len(StageTrace)
     /\ SubSeq(StageTrace, 1, Len(done)) = done
     /\ IF InCall
        THEN /\ IsProperPrefix(rest, TraceOf(idx + 1, call))
             /\ pc = "save" => Len(rest) = Len(StagesOf(call)) - 1
        ELSE pc # "aborted" => rest = <<>>
     /\ pc = "aborted" /\ call # NoCall =>
          IsProperPrefix(rest, TraceOf(idx + 1, call))

\* C8 witness: the script has run to its end: 6 stages for the logo and 9
\* for each of the nine others
C8_Witness ==
  /\ isMain
  /\ pc = "done"
  /\ Len(StageTrace) = 87
  /\ StageTrace[87].stage = "save"
  /\ StageTrace[85].stage = "shadow"

C9_Ranges(args, glows) ==
  IF args.is_logo
  THEN glows[1].radius = Min(args.width, args.height) \div 3
  ELSE /\ \A j \in 1..3 :
            /\ args.width \div 4 <= glows[j].x
            /\ glows[j].x <= (args.width * 3) \div 4
            /\ args.height \div 4 <= glows[j].y
            /\ glows[j].y <= (args.height * 3) \div 4
            /\ 0 <= glows[j].x /\ glows[j].x < args.width
            /\ 0 <= glows[j].y /\ glows[j].y < args.height
            /\ glows[j].radius \in 20..60
       /\ glows[4].radius = 100

\* C9: in a non-logo call each of the 3 accents has its center inside the
\* canvas, width//4 <= rx <= width*3//4 and height//4 <= ry <= height*3//4,
\* and a radius in 20..60; the center glow has radius 100 whatever the
\* canvas size, and the logo glow radius min(width, height)//3.
C9_AccentRanges ==
  /\ \A c \in Composited : C9_Ranges(c[1], c[2])
  /\ pc = "glow" /\ ~call.is_logo =>
       \A j \in 1..Len(img.glows) :
         /\ img.glows[j].x \in (call.width \div 4)..((call.width * 3) \div 4)
         /\ img.glows[j].y \in (call.height \div 4)..((call.height * 3) \div 4)
         /\ img.glows[j].radius \in 20..60

\* C9 witness: on a 3x3 non-logo an accent is at the upper end of both
\* ranges and the center glow, of radius 100, is larger than the canvas
C9_Witness ==
  /\ GlowsDone
  /\ ~call.is_logo
  /\ call.width = 3 /\ call.height = 3
  /\ \E j \in 1..3 : img.glows[j].x = 2
  /\ \E j \in 1..3 : img.glows[j].y = 2
  /\ img.glows[4].radius = 100

====
